---- MODULE Spec2Model ----
(***************************************************************************)
(* Response shaping pipeline of the Nyxie chatbot:                         *)
(*   - DynamicResponseManager (src/dynamic_response.py): the length-class  *)
(*     selector with its two tracking fields,                              *)
(*   - split_long_message (src/main.py): the segmenter,                    *)
(*   - handle_message / generate_response_with_search (src/main.py): the   *)
(*     coroutines that call both.                                          *)
(* Python floats are modelled as exact rationals <<numerator, denominator>>*)
(* (denominator > 0, lowest terms), so rounding drift is not represented.  *)
(***************************************************************************)
EXTENDS Integers, Sequences, FiniteSets, TLC

\* ------------------------------------------------------------------------
\* Bounds of the model
\* ------------------------------------------------------------------------
\* largest value consecutive_same_type_count may take in the model
MaxCount == 3

\* largest repeat count the variety stage is applied to on its own
MaxRepeats == 7

\* ------------------------------------------------------------------------
\* Exact rational arithmetic standing for Python float arithmetic
\* ------------------------------------------------------------------------
Abs(x) == IF x < 0 THEN -x ELSE x

RECURSIVE GCD(_, _)
GCD(a, b) == IF b = 0 THEN a ELSE GCD(b, a % b)

\* n/d with the common factor g taken out and the sign moved to the numerator
Reduce(n, d, g) == IF d < 0 THEN <<(-n) \div g, (-d) \div g>> ELSE <<n \div g, d \div g>>

Norm(n, d) == Reduce(n, d, GCD(Abs(n), Abs(d)))

\* cross-cancelled product: g1 = gcd(|a.num|, b.den), g2 = gcd(|b.num|, a.den)
MulReduced(a, b, g1, g2) ==
    <<(a[1] \div g1) * (b[1] \div g2), (a[2] \div g2) * (b[2] \div g1)>>

RMul(a, b) == MulReduced(a, b, GCD(Abs(a[1]), b[2]), GCD(Abs(b[1]), a[2]))

\* sum over the least common denominator: g = gcd(a.den, b.den)
AddOver(a, b, g) ==
    Norm(a[1] * (b[2] \div g) + b[1] * (a[2] \div g), (a[2] \div g) * b[2])

RAdd(a, b) == AddOver(a, b, GCD(a[2], b[2]))

RSub(a, b) == RAdd(a, <<-b[1], b[2]>>)

\* 1 / b for b # 0
RInv(b) == IF b[1] < 0 THEN <<-b[2], -b[1]>> ELSE <<b[2], b[1]>>

\* a / b for b # 0
RDiv(a, b) == RMul(a, RInv(b))

RSign(a) == IF a[1] < 0 THEN -1 ELSE IF a[1] = 0 THEN 0 ELSE 1

RLeq(a, b) == RSign(RSub(a, b)) <= 0

RLt(a, b) == RSign(RSub(a, b)) < 0

RMin(a, b) == IF RLeq(a, b) THEN a ELSE b

RECURSIVE RPow(_, _)
RPow(a, n) == IF n = 0 THEN <<1, 1>> ELSE RMul(a, RPow(a, n - 1))

\* ------------------------------------------------------------------------
\* DynamicResponseManager
\* ------------------------------------------------------------------------
None == "None"

\* keys of the probabilities dict, in insertion order
Classes == <<"extremely_short", "slightly_short", "medium", "slightly_long", "long">>

ClassSet == {Classes[i] : i \in 1..5}

VARIABLES
    DYNAMIC_MESSAGE_LENGTH_ENABLED, \* config flag
    BASE_PROBABILITY,               \* the five configured *_RESPONSE_PROBABILITY values
    RESPONSE_LENGTH_RANDOMNESS,     \* config randomness factor
    last_response_type,             \* field of the singleton manager
    consecutive_same_type_count,    \* field of the singleton manager
    call,                           \* outcome of the latest call of the manager
    selection_run,                  \* history: trailing run of equal classes returned
    stage,                          \* one adjustment stage applied on its own: input and output
    tasks,                          \* the handle_message coroutines in flight
    running,                        \* the coroutine that holds the event loop
    conversations,                  \* memory.conversations: messages stored per chat
    own_state,                      \* per chat: the tracking its own selections alone give
    updates,                        \* number of updates delivered so far
    text,                           \* argument of split_long_message
    max_length,                     \* argument of split_long_message
    response_chunks                 \* value returned by split_long_message

\* the shared random source: values random.random() may return, as rationals
UnitDraws == {<<0, 1>>, <<1, 2>>, <<19, 20>>}

\* message_content, reduced to what get_response_type reads of it
Messages ==
    { [len |-> 10,  question |-> FALSE, command |-> FALSE],
      [len |-> 120, question |-> TRUE,  command |-> FALSE],
      [len |-> 300, question |-> FALSE, command |-> TRUE] }

\* the context argument: None, or the dict built by the caller
Contexts ==
    { [present |-> FALSE, is_first_message |-> FALSE, message_count |-> 0],
      [present |-> TRUE,  is_first_message |-> TRUE,  message_count |-> 1],
      [present |-> TRUE,  is_first_message |-> FALSE, message_count |-> 8] }

\* a probabilities dict
Weights(es, ss, m, sl, l) ==
    [extremely_short |-> es, slightly_short |-> ss, medium |-> m,
     slightly_long |-> sl, long |-> l]

\* config.py defaults 0.15, 0.20, 0.25, 0.20, 0.20 and 0.9
DefaultProbabilities == Weights(<<3, 20>>, <<1, 5>>, <<1, 4>>, <<1, 5>>, <<1, 5>>)

DefaultRandomness == <<9, 10>>

\* probabilities[k] *= f
Scale(p, k, f) == [p EXCEPT ![k] = RMul(@, f)]

\* _adjust_probabilities_for_content; the factors 1.5, 1.3, 0.7, 1.2, 1.1 are
\* <<3, 2>>, <<13, 10>>, <<7, 10>>, <<6, 5>>, <<11, 10>>
AdjustProbabilitiesForContent(p, m) ==
    LET p1 == IF m.len < 50
              THEN Scale(Scale(Scale(p, "extremely_short", <<3, 2>>),
                               "slightly_short", <<13, 10>>), "long", <<7, 10>>)
              ELSE IF m.len > 200
              THEN Scale(Scale(Scale(p, "slightly_long", <<13, 10>>),
                               "long", <<3, 2>>), "extremely_short", <<7, 10>>)
              ELSE p
        p2 == IF m.question
              THEN Scale(Scale(p1, "medium", <<13, 10>>), "slightly_long", <<6, 5>>)
              ELSE p1
    IN  IF m.command
        THEN Scale(Scale(p2, "extremely_short", <<6, 5>>), "slightly_short", <<11, 10>>)
        ELSE p2

\* _adjust_probabilities_for_context; the factors 1.5, 1.3, 0.5, 1.2 are
\* <<3, 2>>, <<13, 10>>, <<1, 2>>, <<6, 5>>
AdjustProbabilitiesForContext(p, c) ==
    LET p1 == IF c.is_first_message
              THEN Scale(Scale(Scale(p, "medium", <<3, 2>>),
                               "slightly_long", <<13, 10>>), "extremely_short", <<1, 2>>)
              ELSE p
    IN  IF c.message_count > 5
        THEN Scale(Scale(p1, "extremely_short", <<6, 5>>), "long", <<6, 5>>)
        ELSE p1

\* the damping read as a floor: max(0.3, 0.8 ** n)
ReductionFactorFloor(n) ==
    IF RLeq(<<3, 10>>, RPow(<<4, 5>>, n)) THEN RPow(<<4, 5>>, n) ELSE <<3, 10>>

\* reduction_factor = min(0.3, 0.8 ** consecutive_same_type_count), 0.3 and
\* 0.8 being <<3, 10>> and <<4, 5>>
ReductionFactor(n) == RMin(<<3, 10>>, RPow(<<4, 5>>, n))

\* the table with medium favoured after long responses as well
PushAwayFromLongBoostsMedium(p, last) ==
    IF last \in {"extremely_short", "slightly_short"}
    THEN Scale(Scale(Scale(p, "slightly_long", <<3, 1>>), "long", <<3, 1>>), "medium", <<2, 1>>)
    ELSE IF last = "medium"
    THEN Scale(Scale(p, "extremely_short", <<5, 2>>), "long", <<5, 2>>)
    ELSE IF last \in {"slightly_long", "long"}
    THEN Scale(Scale(Scale(p, "extremely_short", <<3, 1>>), "slightly_short", <<3, 1>>),
               "medium", <<2, 1>>)
    ELSE p

\* the "dramatic change" table keyed on the previous type; the factors 3.0,
\* 2.0, 2.5 are <<3, 1>>, <<2, 1>>, <<5, 2>>
PushAway(p, last) ==
    IF last \in {"extremely_short", "slightly_short"}
    THEN Scale(Scale(Scale(p, "slightly_long", <<3, 1>>), "long", <<3, 1>>), "medium", <<2, 1>>)
    ELSE IF last = "medium"
    THEN Scale(Scale(p, "extremely_short", <<5, 2>>), "long", <<5, 2>>)
    ELSE IF last \in {"slightly_long", "long"}
    THEN Scale(Scale(p, "extremely_short", <<3, 1>>), "slightly_short", <<3, 1>>)
    ELSE p

\* response_types = list(probabilities.keys()); response_types.remove(last)
OtherTypes(last) == SelectSeq(Classes, LAMBDA k : k # last)

\* the guard without the test of the counter
VarietyAppliesToAnyPrevious(last, count) == last # None

\* whether the variety stage applies at all
VarietyApplies(last, count) == count > 0 /\ last # None

\* d.push, d.boost: the two random.random() draws, compared with 0.8 = <<4, 5>>
\* and 0.2 = <<1, 5>>; d.choice: index random.choice picks; 4.0 is <<4, 1>>
AdjustProbabilitiesForVariety(p, last, count, d) ==
    IF VarietyApplies(last, count)
    THEN LET p1 == Scale(p, last, ReductionFactor(count))
             p2 == IF count >= 1 /\ RLt(d.push, <<4, 5>>) THEN PushAway(p1, last) ELSE p1
         IN  IF RLt(d.boost, <<1, 5>>)
             THEN Scale(p2, OtherTypes(last)[d.choice], <<4, 1>>)
             ELSE p2
    ELSE p

\* the adjustment without its "1.0 +"
RandomAdjustmentAroundZero(randomness, draw) ==
    RMul(randomness, RSub(RMul(draw, <<2, 1>>), <<1, 1>>))

\* random_adjustment = 1.0 + randomness * (random.random() * 2 - 1), one draw per key
RandomAdjustment(randomness, draw) ==
    RAdd(<<1, 1>>, RMul(randomness, RSub(RMul(draw, <<2, 1>>), <<1, 1>>)))

ApplyRandomness(p, randomness, u) ==
    Weights(RMul(p.extremely_short, RandomAdjustment(randomness, u.extremely_short)),
            RMul(p.slightly_short, RandomAdjustment(randomness, u.slightly_short)),
            RMul(p.medium, RandomAdjustment(randomness, u.medium)),
            RMul(p.slightly_long, RandomAdjustment(randomness, u.slightly_long)),
            RMul(p.long, RandomAdjustment(randomness, u.long)))

\* total = sum(probabilities.values())
Total(p) ==
    RAdd(RAdd(RAdd(RAdd(p.extremely_short, p.slightly_short), p.medium),
              p.slightly_long), p.long)

\* {k: v/total for k, v in probabilities.items()}, total # 0
DivideAll(p, total) ==
    Weights(RDiv(p.extremely_short, total), RDiv(p.slightly_short, total),
            RDiv(p.medium, total), RDiv(p.slightly_long, total), RDiv(p.long, total))

\* the walk with "rand_val < cum_prob" as its test
RECURSIVE SelectFromBelow(_, _, _, _)
SelectFromBelow(np, rand_val, i, cumulative_prob) ==
    IF RLt(rand_val, cumulative_prob) THEN Classes[i]
    ELSE IF i = 5 THEN "medium"
    ELSE SelectFromBelow(np, rand_val, i + 1, RAdd(cumulative_prob, np[Classes[i + 1]]))

\* first item whose cumulative probability is >= rand_val, else "medium"
\* the loop over cumulative_probs from position i on, cumulative_prob being
\* the running sum up to and including position i
RECURSIVE SelectFrom(_, _, _, _)
SelectFrom(np, rand_val, i, cumulative_prob) ==
    IF RLeq(rand_val, cumulative_prob) THEN Classes[i]
    ELSE IF i = 5 THEN "medium"
    ELSE SelectFrom(np, rand_val, i + 1, RAdd(cumulative_prob, np[Classes[i + 1]]))

SelectResponseType(np, rand_val) == SelectFrom(np, rand_val, 1, np[Classes[1]])

\* per-key draws used by _apply_randomness
RandomnessDraws ==
    { Weights(<<0, 1>>, <<0, 1>>, <<0, 1>>, <<0, 1>>, <<0, 1>>),
      Weights(<<19, 20>>, <<0, 1>>, <<1, 2>>, <<0, 1>>, <<19, 20>>) }

\* values of the two random.random() draws compared with 0.8 and 0.2
BernoulliDraws == {<<0, 1>>, <<19, 20>>}

\* draws of the variety stage; random.choice is consumed only when the boost
\* draw is below 0.2 (a draw that is not consumed is fixed, not enumerated)
VarietyDraws ==
    [push : BernoulliDraws, boost : {x \in BernoulliDraws : ~RLt(x, <<1, 5>>)}, choice : {1}]
    \cup
    [push : BernoulliDraws, boost : {x \in BernoulliDraws : RLt(x, <<1, 5>>)}, choice : 1..4]

NoVarietyDraws == {[push |-> <<19, 20>>, boost |-> <<19, 20>>, choice |-> 1]}

DrawSet(last, count) ==
    IF VarietyApplies(last, count) THEN VarietyDraws ELSE NoVarietyDraws

\* number of values taken from the random source before normalization
DrawsBeforeNormalize(last, count, d) ==
    (IF VarietyApplies(last, count)
     THEN 2 + (IF RLt(d.boost, <<1, 5>>) THEN 1 ELSE 0)
     ELSE 0) + 5

\* lines 42-47: the content stage, and the context stage "if context:"
AdjustForTurn(base, m, c) ==
    IF c.present
    THEN AdjustProbabilitiesForContext(AdjustProbabilitiesForContent(base, m), c)
    ELSE AdjustProbabilitiesForContent(base, m)

\* the update with the reset of the counter forgotten
UpdateTrackingNoReset(last, count, response_type) ==
    IF response_type = last
    THEN [last |-> last, count |-> count + 1]
    ELSE [last |-> response_type, count |-> count]

\* the update counting the first occurrence as a repeat
UpdateTrackingFromOne(last, count, response_type) ==
    IF response_type = last
    THEN [last |-> last, count |-> count + 1]
    ELSE [last |-> response_type, count |-> 1]

\* "Update tracking variables": the new <<last_response_type, count>>
UpdateTracking(last, count, response_type) ==
    IF response_type = last
    THEN [last |-> last, count |-> count + 1]
    ELSE [last |-> response_type, count |-> 0]

ZeroDivisionError == "ZeroDivisionError"

\* what a call leaves behind: its result (a class, "", or the exception it
\* raised), the tracking fields after it, the random draws it consumed
Outcome(result, tracking, draws) ==
    [result |-> result, last |-> tracking.last, count |-> tracking.count, draws |-> draws]

\* history of the classes returned by enabled selections: the class of the
\* trailing run of equal classes and the length of that run
ExtendRun(run, enabled, result) ==
    IF ~enabled \/ result \notin ClassSet THEN run
    ELSE IF run.class = result THEN [class |-> result, length |-> run.length + 1]
    ELSE [class |-> result, length |-> 1]

\* configurations config.py can load (environment variables are free floats)
Configurations ==
    { [base |-> DefaultProbabilities, randomness |-> DefaultRandomness],
      [base |-> Weights(<<0, 1>>, <<0, 1>>, <<0, 1>>, <<0, 1>>, <<0, 1>>),
       randomness |-> DefaultRandomness],
      [base |-> Weights(<<0, 1>>, <<1, 5>>, <<0, 1>>, <<2, 5>>, <<1, 5>>), randomness |-> <<0, 1>>],
      [base |-> DefaultProbabilities, randomness |-> <<2, 1>>] }

vars == <<DYNAMIC_MESSAGE_LENGTH_ENABLED, BASE_PROBABILITY,
          RESPONSE_LENGTH_RANDOMNESS, last_response_type,
          consecutive_same_type_count, call, selection_run, stage,
          tasks, running, conversations, own_state, updates,
          text, max_length, response_chunks>>

handlerVars == <<tasks, running, conversations, own_state, updates>>

splitVars == <<text, max_length, response_chunks>>

managerVars == <<last_response_type, consecutive_same_type_count, call, selection_run>>

configVars == <<DYNAMIC_MESSAGE_LENGTH_ENABLED, BASE_PROBABILITY, RESPONSE_LENGTH_RANDOMNESS>>

\* DynamicResponseManager.__init__
NewManager ==
    /\ last_response_type = None
    /\ consecutive_same_type_count = 0
    /\ call = [op |-> "none", result |-> None, draws |-> 0]
    /\ selection_run = [class |-> None, length |-> 0]

\* module import: config is loaded, the singleton is constructed (__init__)
InitManager ==
    /\ DYNAMIC_MESSAGE_LENGTH_ENABLED \in BOOLEAN
    /\ \E cfg \in Configurations :
          /\ BASE_PROBABILITY = cfg.base
          /\ RESPONSE_LENGTH_RANDOMNESS = cfg.randomness
    /\ NewManager

\* the effect on the manager of one call named op whose outcome is r
Apply(op, r) ==
    /\ r.count <= MaxCount
    /\ last_response_type' = r.last
    /\ consecutive_same_type_count' = r.count
    /\ call' = [op |-> op, result |-> r.result, draws |-> r.draws]
    /\ selection_run' = ExtendRun(selection_run, DYNAMIC_MESSAGE_LENGTH_ENABLED, r.result)

\* the early return of both methods when the mechanism is disabled
Disabled(op, result) ==
    Apply(op, Outcome(result, [last |-> last_response_type,
                               count |-> consecutive_same_type_count], 0))

\* lines 59-70: sample with rand_val, update the tracking fields, return;
\* n values of the random source were consumed before
SelectAndTrack(op, np, rand_val, n) ==
    \E response_type \in {SelectResponseType(np, rand_val)} :
        Apply(op, Outcome(response_type,
                          UpdateTracking(last_response_type, consecutive_same_type_count,
                                         response_type),
                          n + 1))

\* lines 55-57: the division by total raises when total is 0
NormalizeAndSelect(op, p, n) ==
    \E total \in {Total(p)} :
        IF total = <<0, 1>>
        THEN Apply(op, Outcome(ZeroDivisionError,
                               [last |-> last_response_type,
                                count |-> consecutive_same_type_count], n))
        ELSE \E np \in {DivideAll(p, total)} :
             \E rand_val \in UnitDraws : SelectAndTrack(op, np, rand_val, n)

\* lines 33-70 of get_response_type, statement by statement; each stage's
\* weights are bound once and every value of the random source is a choice
Selection(op, m, c) ==
    \E p2 \in {AdjustForTurn(BASE_PROBABILITY, m, c)} :
    \E d \in DrawSet(last_response_type, consecutive_same_type_count) :
    \E p3 \in {AdjustProbabilitiesForVariety(p2, last_response_type,
                                             consecutive_same_type_count, d)} :
    \E u \in RandomnessDraws :
    \E p4 \in {ApplyRandomness(p3, RESPONSE_LENGTH_RANDOMNESS, u)} :
        NormalizeAndSelect(op, p4,
            DrawsBeforeNormalize(last_response_type, consecutive_same_type_count, d))

\* get_response_type without its early return
GetResponseTypeUnguarded(op, m, c) == Selection(op, m, c)

\* get_response_type(message_content, context)
GetResponseType(op, m, c) ==
    IF ~DYNAMIC_MESSAGE_LENGTH_ENABLED
    THEN Disabled(op, "medium")
    ELSE Selection(op, m, c)

\* format_response_length_for_prompt(message_content, context); the text it
\* returns when enabled is the instruction of the class get_response_type
\* returned, recorded as that class
FormatResponseLengthForPrompt(op, m, c) ==
    IF ~DYNAMIC_MESSAGE_LENGTH_ENABLED
    THEN Disabled(op, "")
    ELSE GetResponseType(op, m, c)

NoStage == [name |-> "none"]

\* no coroutine holds the event loop
NoOne == 0

\* no update is being handled, no conversation is stored
NoHandlers ==
    /\ tasks = <<>>
    /\ running = NoOne
    /\ conversations = <<>>
    /\ own_state = <<>>
    /\ updates = 0

\* split_long_message has not returned
NotReturned == [returned |-> FALSE, chunks |-> <<>>]

\* split_long_message has not been called
NoSplit ==
    /\ text = <<>>
    /\ max_length = 0
    /\ response_chunks = NotReturned

CallGetResponseType ==
    /\ \E m \in Messages, c \in Contexts : GetResponseType("get_response_type", m, c)
    /\ UNCHANGED <<configVars, stage, handlerVars, splitVars>>

CallFormatResponseLengthForPrompt ==
    /\ \E m \in Messages, c \in Contexts :
          FormatResponseLengthForPrompt("format_response_length_for_prompt", m, c)
    /\ UNCHANGED <<configVars, stage, handlerVars, splitVars>>

InitSelector == InitManager /\ stage = NoStage /\ NoHandlers /\ NoSplit

NextSelector == CallGetResponseType \/ CallFormatResponseLengthForPrompt

\* the manager driven through its two public methods
SpecSelector == InitSelector /\ [][NextSelector]_vars

\* ------------------------------------------------------------------------
\* The variety stage on its own: _adjust_probabilities_for_variety applied
\* once to a manager in any state its fields can be in
\* ------------------------------------------------------------------------
\* weights the stage may be handed (the dict after the earlier stages)
StageWeights ==
    { DefaultProbabilities,
      Weights(<<9, 40>>, <<13, 50>>, <<1, 4>>, <<1, 5>>, <<7, 50>>) }

InitVariety ==
    /\ DYNAMIC_MESSAGE_LENGTH_ENABLED = TRUE
    /\ BASE_PROBABILITY = DefaultProbabilities
    /\ RESPONSE_LENGTH_RANDOMNESS = DefaultRandomness
    /\ \/ /\ last_response_type = None
          /\ consecutive_same_type_count = 0
          /\ selection_run = [class |-> None, length |-> 0]
       \/ /\ last_response_type \in ClassSet
          /\ consecutive_same_type_count \in 0..MaxRepeats
          /\ selection_run = [class |-> last_response_type,
                              length |-> consecutive_same_type_count + 1]
    /\ call = [op |-> "none", result |-> None, draws |-> 0]
    /\ \E p \in StageWeights :
          stage = [name |-> "input", before |-> p]
    /\ NoHandlers
    /\ NoSplit

\* self._adjust_probabilities_for_variety(probabilities)
ApplyVariety ==
    /\ stage.name = "input"
    /\ \E d \in DrawSet(last_response_type, consecutive_same_type_count) :
          stage' = [name |-> "variety", before |-> stage.before, draw |-> d,
                    factor |-> IF VarietyApplies(last_response_type,
                                                 consecutive_same_type_count)
                               THEN ReductionFactor(consecutive_same_type_count)
                               ELSE None,
                    after |-> AdjustProbabilitiesForVariety(stage.before,
                                  last_response_type, consecutive_same_type_count, d)]
    /\ UNCHANGED <<configVars, managerVars, handlerVars, splitVars>>

NextVariety == ApplyVariety

SpecVariety == InitVariety /\ [][NextVariety]_vars

\* ------------------------------------------------------------------------
\* get_response_type statement by statement: the local dict "probabilities"
\* is observable after each stage. The singleton is called again and again;
\* the locals of a finished call are kept in stage until the next call
\* begins, as a record of what that call computed.
\* ------------------------------------------------------------------------
\* the dict built by a call that takes over what the previous call computed
CarriedProbabilities(previous) ==
    IF previous.name = "returned" THEN previous.weights ELSE BASE_PROBABILITY

\* lines 34-40: probabilities = {...}, a new dict filled from config
BaseProbabilities(previous) == BASE_PROBABILITY

\* the damping without its cap: 0.8 ** count alone
DampByPower(p, last, count) == Scale(p, last, RPow(<<4, 5>>, count))

\* lines 132-133: probabilities[last_response_type] *= reduction_factor
Damp(p, last, count) == Scale(p, last, ReductionFactor(count))

\* lines 136-149, push being the value random.random() returned
Push(p, last, count, push) ==
    IF count >= 1 /\ RLt(push, <<4, 5>>) THEN PushAway(p, last) ELSE p

\* random.choice over all the keys, the previous type not removed
BoostAnyType(p, last, boost, choice) ==
    IF RLt(boost, <<1, 5>>) THEN Scale(p, Classes[choice], <<4, 1>>) ELSE p

\* lines 152-158, boost being the value random.random() returned and choice
\* the index random.choice picked
Boost(p, last, boost, choice) ==
    IF RLt(boost, <<1, 5>>) THEN Scale(p, OtherTypes(last)[choice], <<4, 1>>) ELSE p

\* the locals of a call that has just built its dict
Locals0(m, c, p) ==
    [name |-> "base", m |-> m, c |-> c, weights |-> p, before |-> p,
     d |-> [push |-> <<19, 20>>, boost |-> <<19, 20>>, choice |-> 1],
     u |-> Weights(<<0, 1>>, <<0, 1>>, <<0, 1>>, <<0, 1>>, <<0, 1>>),
     draws |-> 0]

\* stages at which the dict "probabilities" exists
WeightStages ==
    {"base", "content", "context", "damped", "pushed", "variety", "randomness"}

\* no call is in progress
Idle == stage.name \in {"none", "returned", "raised"}

\* lines 30-40: the early return, or the new dict
Begin ==
    /\ Idle
    /\ IF ~DYNAMIC_MESSAGE_LENGTH_ENABLED
       THEN /\ Disabled("get_response_type", "medium")
            /\ stage' = [name |-> "returned"]
       ELSE /\ \E m \in Messages, c \in Contexts :
                  stage' = Locals0(m, c, BaseProbabilities(stage))
            /\ UNCHANGED managerVars
    /\ UNCHANGED <<configVars, handlerVars, splitVars>>

\* line 43
ContentStage ==
    /\ stage.name = "base"
    /\ stage' = [stage EXCEPT !.name = "content",
                    !.weights = AdjustProbabilitiesForContent(stage.weights, stage.m)]
    /\ UNCHANGED <<configVars, managerVars, handlerVars, splitVars>>

\* lines 46-47
ContextStage ==
    /\ stage.name = "content"
    /\ stage' = [stage EXCEPT !.name = "context",
                    !.weights = IF stage.c.present
                                THEN AdjustProbabilitiesForContext(stage.weights, stage.c)
                                ELSE stage.weights]
    /\ UNCHANGED <<configVars, managerVars, handlerVars, splitVars>>

\* line 50 up to line 133: the test of line 129 and the damping
DampStage ==
    /\ stage.name = "context"
    /\ stage' = IF VarietyApplies(last_response_type, consecutive_same_type_count)
                THEN [stage EXCEPT !.name = "damped", !.before = stage.weights,
                         !.weights = Damp(stage.weights, last_response_type,
                                          consecutive_same_type_count)]
                ELSE [stage EXCEPT !.name = "variety", !.before = stage.weights]
    /\ UNCHANGED <<configVars, managerVars, handlerVars, splitVars>>

\* lines 136-149
PushStage ==
    /\ stage.name = "damped"
    /\ \E push \in BernoulliDraws :
          stage' = [stage EXCEPT !.name = "pushed", !.d.push = push,
                       !.draws = @ + 1,
                       !.weights = Push(stage.weights, last_response_type,
                                        consecutive_same_type_count, push)]
    /\ UNCHANGED <<configVars, managerVars, handlerVars, splitVars>>

\* lines 152-158
BoostStage ==
    /\ stage.name = "pushed"
    /\ \E d \in {x \in VarietyDraws : x.push = stage.d.push} :
          stage' = [stage EXCEPT !.name = "variety", !.d = d,
                       !.draws = @ + 1 + (IF RLt(d.boost, <<1, 5>>) THEN 1 ELSE 0),
                       !.weights = Boost(stage.weights, last_response_type,
                                         d.boost, d.choice)]
    /\ UNCHANGED <<configVars, managerVars, handlerVars, splitVars>>

\* line 53
RandomnessStage ==
    /\ stage.name = "variety"
    /\ \E u \in RandomnessDraws :
          stage' = [stage EXCEPT !.name = "randomness", !.u = u, !.draws = @ + 5,
                       !.weights = ApplyRandomness(stage.weights,
                                                   RESPONSE_LENGTH_RANDOMNESS, u)]
    /\ UNCHANGED <<configVars, managerVars, handlerVars, splitVars>>

\* lines 56-70: normalize, select, update the tracking fields, return (or
\* raise at line 57)
SelectStage ==
    /\ stage.name = "randomness"
    /\ NormalizeAndSelect("get_response_type", stage.weights, stage.draws)
    /\ stage' = [stage EXCEPT !.name = IF Total(stage.weights) = <<0, 1>>
                                       THEN "raised" ELSE "returned"]
    /\ UNCHANGED <<configVars, handlerVars, splitVars>>

InitPipeline == InitManager /\ stage = NoStage /\ NoHandlers /\ NoSplit

NextPipeline ==
    \/ Begin
    \/ ContentStage
    \/ ContextStage
    \/ DampStage
    \/ PushStage
    \/ BoostStage
    \/ RandomnessStage
    \/ SelectStage

SpecPipeline == InitPipeline /\ [][NextPipeline]_vars

\* ------------------------------------------------------------------------
\* _select_response_type on its own: applied once to a normalized dict and a
\* value of random.random()
\* ------------------------------------------------------------------------
MaxWeight == 2

\* dicts of non-negative weights with a non-zero sum
WeightGrid ==
    { Weights(<<a, 1>>, <<b, 1>>, <<c, 1>>, <<d, 1>>, <<e, 1>>) :
        a \in 0..MaxWeight, b \in 0..MaxWeight, c \in 0..MaxWeight,
        d \in 0..MaxWeight, e \in 0..MaxWeight }
    \ { Weights(<<0, 1>>, <<0, 1>>, <<0, 1>>, <<0, 1>>, <<0, 1>>) }

\* lines 56-57 in exact arithmetic: the values sum to 1
NormalizedExactly == { DivideAll(p, Total(p)) : p \in WeightGrid }

\* lines 56-57 in floating point: the quotients are rounded, and their
\* running sum can end short of 1; the loss is put on the last value
NormalizedShortOfOne ==
    { [np EXCEPT !.long = RSub(@, <<1, 1000>>)] :
        np \in {x \in NormalizedExactly : RSign(x.long) > 0} }

\* values of random.random(): 0.0 <= v < 1.0
SampleDraws == UnitDraws \cup {<<9999, 10000>>}

InitSample ==
    /\ DYNAMIC_MESSAGE_LENGTH_ENABLED = TRUE
    /\ BASE_PROBABILITY = DefaultProbabilities
    /\ RESPONSE_LENGTH_RANDOMNESS = DefaultRandomness
    /\ NewManager
    /\ \E np \in NormalizedExactly \cup NormalizedShortOfOne, v \in SampleDraws :
          stage = [name |-> "sample", np |-> np, v |-> v, result |-> None]
    /\ NoHandlers
    /\ NoSplit

\* self._select_response_type(normalized_probabilities)
Sample ==
    /\ stage.name = "sample"
    /\ stage' = [stage EXCEPT !.name = "sampled",
                    !.result = SelectResponseType(stage.np, stage.v)]
    /\ UNCHANGED <<configVars, managerVars, handlerVars, splitVars>>

NextSample == Sample

SpecSample == InitSample /\ [][NextSample]_vars

\* ------------------------------------------------------------------------
\* The message handlers: handle_message coroutines on one asyncio event
\* loop, all of them using the module-level dynamic_response_manager. A
\* coroutine runs until it reaches an await; the loop then resumes any
\* coroutine that is waiting. Dispatching one update at a time, as the
\* default Application does, gives the behaviours in which an update is
\* received only when no other is being handled.
\* ------------------------------------------------------------------------
MaxUpdates == 2

Chats == {"A", "B"}

\* slots for the coroutines in flight
Handlers == {1, 2}

SHORT_MEMORY_SIZE == 25

\* number of messages a conversation holds when the process starts
StoredMessages == {0, 2}

\* memory.get_short_memory(chat_id), as the number of messages it returns
GetShortMemory(n) == IF n < SHORT_MEMORY_SIZE THEN n ELSE SHORT_MEMORY_SIZE

NoSnapshot == [last |-> None, count |-> -1]

\* what a handler has done so far that the user or the generator can see
Event(kind, chunk) == [kind |-> kind, chunk |-> chunk]

\* len(response_chunks): numbers of chunks a response is split into
ChunkCounts == {1, 2, 3}

\* every chunk sent with message.reply_text
ReplyToEveryChunk(k) == Event("reply_text", k)

\* lines 395-403: the call that sends chunk k of response_chunks
SendChunk(k) == Event(IF k = 1 THEN "reply_text" ELSE "send_message", k)

IdleTask ==
    [pc |-> "idle", chat |-> None, chat_history |-> 0,
     snapshot |-> NoSnapshot, response_type |-> None, draws |-> 0,
     events |-> <<>>, chunks |-> 0, sent |-> 0]

\* the position of h moves to pc and the event e is recorded
GotoWith(t, pc, e) == [t EXCEPT !.pc = pc, !.events = Append(@, e)]

\* the tracking fields of the manager, as one value
Tracking == [last |-> last_response_type, count |-> consecutive_same_type_count]

\* the event loop with a suspension between the stages of a selection and
\* its update of the tracking fields
AwaitPointsWithUpdate ==
    {"idle", "welcome_detect", "welcome_reply", "detect_language",
     "search_queries", "search", "generate", "typing_task", "reply",
     "send_message", "except_typing_task", "error_reply", "update"}

\* where a handler is suspended: before an update arrives and at the awaits
\* of handle_message and generate_response_with_search. "variety" and
\* "update" are inside the call of format_response_length_for_prompt, which
\* is not awaited
AwaitPoints ==
    {"idle", "welcome_detect", "welcome_reply", "detect_language",
     "search_queries", "search", "generate", "typing_task", "reply",
     "send_message", "except_typing_task", "error_reply"}

\* the event loop resumes h: nothing else is running
CanRun(h) == running = h \/ (running = NoOne /\ tasks[h].pc \in AwaitPoints)

\* h runs on to the position in t and keeps the loop unless that is an await
Step(h, t) ==
    /\ tasks' = [tasks EXCEPT ![h] = t]
    /\ running' = IF t.pc \in AwaitPoints THEN NoOne ELSE h

At(h, pc) == tasks[h].pc = pc /\ CanRun(h)

Goto(h, pc) == Step(h, [tasks[h] EXCEPT !.pc = pc])

\* memory.add_message(chat_id, role, content)
AddMessage(c) == conversations' = [conversations EXCEPT ![c] = @ + 1]

\* the context dict built at lines 612-616
HandlerContext(n) ==
    [present |-> TRUE, is_first_message |-> n <= 1, message_count |-> n]

\* lines 204-260: an update with a text message arrives for chat c; the
\* first message of a conversation is answered with the welcome
Receive(h) ==
    /\ At(h, "idle")
    /\ \A g \in Handlers : g < h => tasks[g].pc # "idle"
    /\ updates < MaxUpdates
    /\ updates' = updates + 1
    /\ \E c \in Chats :
          IF conversations[c] = 0
          THEN /\ Step(h, [IdleTask EXCEPT !.pc = "welcome_detect", !.chat = c])
               /\ UNCHANGED conversations
          ELSE /\ Step(h, [IdleTask EXCEPT !.pc = "detect_language", !.chat = c])
               /\ AddMessage(c)
    /\ UNCHANGED <<configVars, managerVars, own_state, stage, splitVars>>

\* lines 221-236: the language is known, the welcome is being sent
WelcomeDetected(h) ==
    /\ At(h, "welcome_detect")
    /\ Goto(h, "welcome_reply")
    /\ UNCHANGED <<configVars, managerVars, conversations, own_state, updates,
                   stage, splitVars>>

\* lines 236-240: the welcome is stored unless sending it raised
WelcomeSent(h) ==
    /\ At(h, "welcome_reply")
    /\ Step(h, IdleTask)
    /\ \E sent \in BOOLEAN :
          IF sent THEN AddMessage(tasks[h].chat) ELSE UNCHANGED conversations
    /\ UNCHANGED <<configVars, managerVars, own_state, updates, stage, splitVars>>

\* lines 260-348: the history is read, the search queries are requested
LanguageDetected(h) ==
    /\ At(h, "detect_language")
    /\ Step(h, [tasks[h] EXCEPT !.pc = "search_queries",
                  !.chat_history = GetShortMemory(conversations[tasks[h].chat])])
    /\ UNCHANGED <<configVars, managerVars, conversations, own_state, updates,
                   stage, splitVars>>

\* lines 348-363: the searches are started
QueriesGenerated(h) ==
    /\ At(h, "search_queries")
    /\ Goto(h, "search")
    /\ UNCHANGED <<configVars, managerVars, conversations, own_state, updates,
                   stage, splitVars>>

\* lines 363-377 and 575-604: generate_response_with_search is entered and
\* runs to the call of the manager, or past it when the mechanism is disabled
SearchDone(h) ==
    /\ At(h, "search")
    /\ IF DYNAMIC_MESSAGE_LENGTH_ENABLED
       THEN Goto(h, "variety")
       ELSE Step(h, GotoWith(tasks[h], "generate", Event("generate", 0)))
    /\ UNCHANGED <<configVars, managerVars, conversations, own_state, updates,
                   stage, splitVars>>

\* lines 604-621 with dynamic_response.py lines 33-60: the call of
\* format_response_length_for_prompt up to the sampled class. The tracking
\* fields are read by the variety stage; a zero total raises out of
\* generate_response_with_search into the except of handle_message
AdjustAndSelect(h) ==
    /\ At(h, "variety")
    /\ \E m \in Messages :
       \E p2 \in {AdjustForTurn(BASE_PROBABILITY, m,
                                HandlerContext(tasks[h].chat_history))} :
       \E d \in DrawSet(last_response_type, consecutive_same_type_count) :
       \E p3 \in {AdjustProbabilitiesForVariety(p2, last_response_type,
                                                consecutive_same_type_count, d)} :
       \E u \in RandomnessDraws :
       \E p4 \in {ApplyRandomness(p3, RESPONSE_LENGTH_RANDOMNESS, u)} :
       \E total \in {Total(p4)} :
          IF total = <<0, 1>>
          THEN /\ Goto(h, "except_typing_task")
               /\ Apply("format_response_length_for_prompt",
                        Outcome(ZeroDivisionError, Tracking,
                                DrawsBeforeNormalize(last_response_type,
                                    consecutive_same_type_count, d)))
          ELSE \E np \in {DivideAll(p4, total)} :
               \E rand_val \in UnitDraws :
                  /\ Step(h, [tasks[h] EXCEPT
                                !.pc = "update",
                                !.events = Append(@, Event("select", 0)),
                                !.snapshot = Tracking,
                                !.response_type = SelectResponseType(np, rand_val),
                                !.draws = 1 + DrawsBeforeNormalize(last_response_type,
                                                  consecutive_same_type_count, d)])
                  /\ UNCHANGED managerVars
    /\ UNCHANGED <<configVars, conversations, own_state, updates, stage, splitVars>>

\* dynamic_response.py lines 62-70 and main.py lines 621-778: the tracking
\* fields are updated, the prompt is completed, the generator is called
UpdateTrackingFields(h) ==
    /\ At(h, "update")
    /\ Apply("format_response_length_for_prompt",
             Outcome(tasks[h].response_type,
                     UpdateTracking(last_response_type, consecutive_same_type_count,
                                    tasks[h].response_type),
                     tasks[h].draws))
    /\ own_state' = [own_state EXCEPT ![tasks[h].chat] =
                        UpdateTracking(@.last, @.count, tasks[h].response_type)]
    /\ Step(h, [IdleTask EXCEPT !.pc = "generate", !.chat = tasks[h].chat,
                                !.chat_history = tasks[h].chat_history,
                                !.events = Append(tasks[h].events,
                                                  Event("generate", 0))])
    /\ UNCHANGED <<configVars, conversations, updates, stage, splitVars>>

\* lines 778-388: the response is there, the typing task is stopped
Generated(h) ==
    /\ At(h, "generate")
    /\ Goto(h, "typing_task")
    /\ UNCHANGED <<configVars, managerVars, conversations, own_state, updates,
                   stage, splitVars>>

\* lines 388-399: the response is split, the first chunk is being sent
TypingStopped(h) ==
    /\ At(h, "typing_task")
    /\ \E n \in ChunkCounts :
          Step(h, [tasks[h] EXCEPT !.pc = "reply", !.chunks = n, !.sent = 1,
                      !.events = @ \o <<Event("split", 0), SendChunk(1)>>])
    /\ UNCHANGED <<configVars, managerVars, conversations, own_state, updates,
                   stage, splitVars>>

\* lines 396-432 after the await of a send: the next chunk is being sent,
\* or, after the last one, the response is stored; if sending raised, the
\* except block sends the error message instead
ChunkSent(h) ==
    \E sent \in BOOLEAN :
        IF ~sent
        THEN /\ Step(h, GotoWith(tasks[h], "error_reply", Event("error_message", 0)))
             /\ UNCHANGED conversations
        ELSE IF tasks[h].sent < tasks[h].chunks
        THEN /\ Step(h, [tasks[h] EXCEPT !.pc = "send_message", !.sent = @ + 1,
                            !.events = Append(@, SendChunk(tasks[h].sent + 1))])
             /\ UNCHANGED conversations
        ELSE /\ Step(h, IdleTask)
             /\ AddMessage(tasks[h].chat)

\* line 399: await message.reply_text(chunk) is over
ReplySent(h) ==
    /\ At(h, "reply")
    /\ ChunkSent(h)
    /\ UNCHANGED <<configVars, managerVars, own_state, updates, stage, splitVars>>

\* line 403: await context.bot.send_message(chat_id=chat_id, text=chunk) is over
MessageSent(h) ==
    /\ At(h, "send_message")
    /\ ChunkSent(h)
    /\ UNCHANGED <<configVars, managerVars, own_state, updates, stage, splitVars>>

\* lines 415-429: the except block has stopped the typing task
ExceptTypingStopped(h) ==
    /\ At(h, "except_typing_task")
    /\ Step(h, GotoWith(tasks[h], "error_reply", Event("error_message", 0)))
    /\ UNCHANGED <<configVars, managerVars, conversations, own_state, updates,
                   stage, splitVars>>

\* lines 429-432: the error message is stored unless sending it raised
ErrorReplySent(h) ==
    /\ At(h, "error_reply")
    /\ Step(h, IdleTask)
    /\ \E sent \in BOOLEAN :
          IF sent THEN AddMessage(tasks[h].chat) ELSE UNCHANGED conversations
    /\ UNCHANGED <<configVars, managerVars, own_state, updates, stage, splitVars>>

\* configurations the handlers are run with
HandlerConfigurations ==
    { [base |-> DefaultProbabilities, randomness |-> DefaultRandomness],
      [base |-> Weights(<<0, 1>>, <<0, 1>>, <<0, 1>>, <<0, 1>>, <<0, 1>>),
       randomness |-> DefaultRandomness] }

\* the process has started: modules imported, stored conversations loaded
InitHandlers ==
    /\ DYNAMIC_MESSAGE_LENGTH_ENABLED \in BOOLEAN
    /\ \E cfg \in HandlerConfigurations :
          /\ BASE_PROBABILITY = cfg.base
          /\ RESPONSE_LENGTH_RANDOMNESS = cfg.randomness
    /\ NewManager
    /\ tasks = [h \in Handlers |-> IdleTask]
    /\ running = NoOne
    /\ conversations \in [Chats -> StoredMessages]
    /\ own_state = [c \in Chats |-> [last |-> None, count |-> 0]]
    /\ updates = 0
    /\ stage = NoStage
    /\ NoSplit

NextHandlers ==
    \/ \E h \in Handlers : Receive(h)
    \/ \E h \in Handlers : WelcomeDetected(h)
    \/ \E h \in Handlers : WelcomeSent(h)
    \/ \E h \in Handlers : LanguageDetected(h)
    \/ \E h \in Handlers : QueriesGenerated(h)
    \/ \E h \in Handlers : SearchDone(h)
    \/ \E h \in Handlers : AdjustAndSelect(h)
    \/ \E h \in Handlers : UpdateTrackingFields(h)
    \/ \E h \in Handlers : Generated(h)
    \/ \E h \in Handlers : TypingStopped(h)
    \/ \E h \in Handlers : ReplySent(h)
    \/ \E h \in Handlers : MessageSent(h)
    \/ \E h \in Handlers : ExceptTypingStopped(h)
    \/ \E h \in Handlers : ErrorReplySent(h)

SpecHandlers == InitHandlers /\ [][NextHandlers]_vars

\* ------------------------------------------------------------------------
\* One call of handle_message with the keep_typing task it creates, await by
\* await. An await returns or raises; the conversation is not a new one, so
\* the handler is past the welcome. tasks holds the two coroutines.
\* ------------------------------------------------------------------------
\* message.text / message.photo, video, document / anything else
MessageKinds == {"text", "media", "other"}

\* positions of keep_typing at which the loop is still alive
TypingAlive == {"created", "send_chat_action", "sleep"}

\* the except block entered without the test and the set of the event
ExceptWithoutCancel(t) == [t EXCEPT !.pc = "error_reply"]

\* lines 415-429: the except block up to its first await
Except(t) ==
    IF t.cancel_typing
    THEN [t EXCEPT !.pc = "error_reply"]
    ELSE [t EXCEPT !.cancel_typing = TRUE, !.pc = "except_typing_task"]

\* the loop left after the first chunk
FirstSent(t) == t.sent >= 1

\* "for chunk in response_chunks" has no chunk left
AllSent(t) == t.sent >= t.chunks

\* the handler's locals become t
Turn(t) == tasks' = [tasks EXCEPT !.handle_message = t]

TurnAt(pc) == tasks.handle_message.pc = pc

\* what the actions of a turn leave alone
TurnFrame == UNCHANGED <<configVars, managerVars, stage, splitVars, running, own_state>>

\* lines 204-270: the update arrives, the typing task is created, the
\* handler runs to its first await
TurnReceived ==
    /\ TurnAt("idle")
    /\ updates' = updates + 1
    /\ \E c \in Chats, kind \in MessageKinds :
          /\ tasks' = [handle_message |->
                          [tasks.handle_message EXCEPT
                              !.chat = c, !.kind = kind,
                              !.pc = CASE kind = "text" -> "detect_language"
                                       [] kind = "media" -> "download"
                                       [] OTHER -> "notice"],
                       keep_typing |-> [pc |-> "created"]]
          /\ IF kind = "text" THEN AddMessage(c) ELSE UNCHANGED conversations
    /\ TurnFrame

\* an await of the try block that is followed by the next await: it returns
\* and the handler runs on to the position next, or it raises
AwaitOver(pc, next) ==
    /\ TurnAt(pc)
    /\ \E raised \in BOOLEAN :
          Turn(IF raised THEN Except(tasks.handle_message)
               ELSE [tasks.handle_message EXCEPT !.pc = next])
    /\ UNCHANGED <<conversations, updates>>
    /\ TurnFrame

\* lines 260-348
TurnLanguageDetected == AwaitOver("detect_language", "search_queries")

\* lines 270-302: no file, or a media type that is neither photo nor video,
\* is answered with a notice; a photo or a video is analyzed
TurnDownloaded ==
    /\ TurnAt("download")
    /\ \E result \in {"raised", "notice", "analyze"} :
          Turn(IF result = "raised" THEN Except(tasks.handle_message)
               ELSE [tasks.handle_message EXCEPT !.pc = result])
    /\ UNCHANGED <<conversations, updates>>
    /\ TurnFrame

\* lines 285-348: the description is stored as the user's message
TurnAnalyzed ==
    /\ TurnAt("analyze")
    /\ \E raised \in BOOLEAN :
          IF raised
          THEN Turn(Except(tasks.handle_message)) /\ UNCHANGED conversations
          ELSE /\ Turn([tasks.handle_message EXCEPT !.pc = "search_queries"])
               /\ AddMessage(tasks.handle_message.chat)
    /\ UNCHANGED updates
    /\ TurnFrame

\* lines 276-281, 296-301, 315-328: the notice is sent, the event is set, the
\* typing task is awaited
TurnNoticeSent ==
    /\ TurnAt("notice")
    /\ \E raised \in BOOLEAN :
          Turn(IF raised THEN Except(tasks.handle_message)
               ELSE [tasks.handle_message EXCEPT !.cancel_typing = TRUE,
                                                 !.pc = "notice_typing_task"])
    /\ UNCHANGED <<conversations, updates>>
    /\ TurnFrame

\* lines 281-282, 301-302, 328-329: await typing_task returns what the task
\* returned or raises what it raised
TurnNoticeTypingStopped ==
    /\ TurnAt("notice_typing_task")
    /\ tasks.keep_typing.pc \notin TypingAlive
    /\ Turn(IF tasks.keep_typing.pc = "failed" THEN Except(tasks.handle_message)
            ELSE [tasks.handle_message EXCEPT !.pc = "returned"])
    /\ UNCHANGED <<conversations, updates>>
    /\ TurnFrame

\* lines 348-363
TurnQueriesGenerated == AwaitOver("search_queries", "search")

\* lines 363-377
TurnSearchDone == AwaitOver("search", "generate")

\* lines 377-388: generate_response_with_search returns the reply (or its
\* own fallback text), the event is set, the typing task is awaited
TurnGenerated ==
    /\ TurnAt("generate")
    /\ \E raised \in BOOLEAN :
          Turn(IF raised THEN Except(tasks.handle_message)
               ELSE [tasks.handle_message EXCEPT
                        !.cancel_typing = TRUE, !.pc = "typing_task",
                        !.events = Append(@, Event("generated", 0))])
    /\ UNCHANGED <<conversations, updates>>
    /\ TurnFrame

\* lines 388-399: await typing_task; then the response is split and the
\* first chunk is being sent
TurnTypingStopped ==
    /\ TurnAt("typing_task")
    /\ tasks.keep_typing.pc \notin TypingAlive
    /\ IF tasks.keep_typing.pc = "failed"
       THEN Turn(Except(tasks.handle_message))
       ELSE \E n \in ChunkCounts :
               Turn([tasks.handle_message EXCEPT !.pc = "reply", !.chunks = n])
    /\ UNCHANGED <<conversations, updates>>
    /\ TurnFrame

\* lines 396-413 after the await of a send: the next chunk is being sent,
\* or, the loop over, the response is stored and the handler returns
TurnChunkSent ==
    /\ TurnAt("reply") \/ TurnAt("send_message")
    /\ \E raised \in BOOLEAN :
       \E k \in {tasks.handle_message.sent + 1} :
          IF raised
          THEN /\ Turn(Except([tasks.handle_message EXCEPT
                                  !.events = Append(@, Event("failed", k))]))
               /\ UNCHANGED conversations
          ELSE \E t \in {[tasks.handle_message EXCEPT
                             !.sent = k, !.events = Append(@, Event("sent", k))]} :
                  IF AllSent(t)
                  THEN /\ Turn([t EXCEPT !.pc = "returned",
                                         !.events = Append(@, Event("stored", 0))])
                       /\ AddMessage(t.chat)
                  ELSE /\ Turn([t EXCEPT !.pc = "send_message"])
                       /\ UNCHANGED conversations
    /\ UNCHANGED updates
    /\ TurnFrame

\* lines 417-429: await typing_task in the except block; what it raises
\* leaves the handler through the outer except
TurnExceptTypingStopped ==
    /\ TurnAt("except_typing_task")
    /\ tasks.keep_typing.pc \notin TypingAlive
    /\ Turn([tasks.handle_message EXCEPT
                !.pc = IF tasks.keep_typing.pc = "failed"
                       THEN "returned" ELSE "error_reply"])
    /\ UNCHANGED <<conversations, updates>>
    /\ TurnFrame

\* lines 429-432: the error message is stored unless sending it raised
TurnErrorReplySent ==
    /\ TurnAt("error_reply")
    /\ \E raised \in BOOLEAN :
          IF raised
          THEN /\ Turn([tasks.handle_message EXCEPT !.pc = "returned"])
               /\ UNCHANGED conversations
          ELSE /\ Turn([tasks.handle_message EXCEPT !.pc = "returned",
                           !.events = @ \o <<Event("error_sent", 0),
                                             Event("error_stored", 0)>>])
               /\ AddMessage(tasks.handle_message.chat)
    /\ UNCHANGED updates
    /\ TurnFrame

\* keep_typing: the position of the task becomes pc
Typing(pc) == tasks' = [tasks EXCEPT !.keep_typing.pc = pc]

TypingFrame == UNCHANGED <<conversations, updates>> /\ TurnFrame

\* line 200: the task runs for the first time and tests the event
TypingStarted ==
    /\ tasks.keep_typing.pc = "created"
    /\ Typing(IF tasks.handle_message.cancel_typing THEN "done" ELSE "send_chat_action")
    /\ TypingFrame

\* lines 201-202: await bot.send_chat_action(...) returns or raises
ChatActionSent ==
    /\ tasks.keep_typing.pc = "send_chat_action"
    /\ \E raised \in BOOLEAN : Typing(IF raised THEN "failed" ELSE "sleep")
    /\ TypingFrame

\* lines 202, 200: await asyncio.sleep(4) is over, the event is tested
Slept ==
    /\ tasks.keep_typing.pc = "sleep"
    /\ Typing(IF tasks.handle_message.cancel_typing THEN "done" ELSE "send_chat_action")
    /\ TypingFrame

InitTurn ==
    /\ DYNAMIC_MESSAGE_LENGTH_ENABLED = TRUE
    /\ BASE_PROBABILITY = DefaultProbabilities
    /\ RESPONSE_LENGTH_RANDOMNESS = DefaultRandomness
    /\ NewManager
    /\ tasks = [handle_message |->
                   [pc |-> "idle", chat |-> None, kind |-> None,
                    cancel_typing |-> FALSE, events |-> <<>>, chunks |-> 0, sent |-> 0],
                keep_typing |-> [pc |-> "none"]]
    /\ running = NoOne
    /\ conversations \in [Chats -> StoredMessages \ {0}]
    /\ own_state = [c \in Chats |-> [last |-> None, count |-> 0]]
    /\ updates = 0
    /\ stage = NoStage
    /\ NoSplit

HandleMessageStep ==
    \/ TurnReceived
    \/ TurnLanguageDetected
    \/ TurnDownloaded
    \/ TurnAnalyzed
    \/ TurnNoticeSent
    \/ TurnNoticeTypingStopped
    \/ TurnQueriesGenerated
    \/ TurnSearchDone
    \/ TurnGenerated
    \/ TurnTypingStopped
    \/ TurnChunkSent
    \/ TurnExceptTypingStopped
    \/ TurnErrorReplySent

KeepTypingStep == TypingStarted \/ ChatActionSent \/ Slept

NextTurn == HandleMessageStep \/ KeepTypingStep

SpecTurn == InitTurn /\ [][NextTurn]_vars

\* every await of the handler and of the typing task returns or raises in
\* the end, and the event loop resumes a coroutine that can run
SpecTurnFair == SpecTurn /\ WF_vars(HandleMessageStep) /\ WF_vars(KeepTypingStep)

\* ------------------------------------------------------------------------
\* split_long_message(text, max_length). A str is a sequence of characters,
\* the list returned a sequence of such sequences
\* ------------------------------------------------------------------------
MaxTextLen == 6

MaxChunkLen == 4

\* a letter, the space, the period and the newline: the characters the
\* function tells apart
Alphabet == {"a", " ", ".", "\n"}

Texts == UNION {[1..n -> Alphabet] : n \in 0..MaxTextLen}

\* Telegram's limit
MAX_MESSAGE_LENGTH == 4096

\* the buffer the default max_length leaves below the limit
SafetyBuffer == 100

\* a default max_length that leaves no buffer
LimitWithoutBuffer == MAX_MESSAGE_LENGTH

\* max_length: int = MAX_MESSAGE_LENGTH - 100
DefaultMaxLength == MAX_MESSAGE_LENGTH - SafetyBuffer

\* n letters, the one at position gap (if any) replaced by a space
LettersWithSpace(n, gap) == [i \in 1..n |-> IF i = gap THEN " " ELSE "a"]

\* replies of the size the limit is about: around the default max_length,
\* just below the limit, and above it; without a break and with one space
LongTexts ==
    { LettersWithSpace(DefaultMaxLength, 0),
      LettersWithSpace(DefaultMaxLength + 1, 0),
      LettersWithSpace(MAX_MESSAGE_LENGTH - 1, 0),
      LettersWithSpace(MAX_MESSAGE_LENGTH - 1, 2000),
      LettersWithSpace(5000, 0) }

\* values of max_length: small ones (non-positive ones too, which the
\* signature admits), the default, and 4000
MaxLengths == (-1..MaxChunkLen) \cup {DefaultMaxLength, 4000}

\* the positions of s, in order
Indices(s) == [i \in 1..Len(s) |-> i]

\* the pieces of s left by cutting out w characters at each of the positions
\* cuts (increasing, at least w apart)
Pieces(s, cuts, w) ==
    [k \in 1..(Len(cuts) + 1) |->
        SubSeq(s, IF k = 1 THEN 1 ELSE cuts[k - 1] + w,
                  IF k > Len(cuts) THEN Len(s) ELSE cuts[k] - 1)]

\* s.split(sep) for a separator of one character
SplitChar(s, sep) == Pieces(s, SelectSeq(Indices(s), LAMBDA i : s[i] = sep), 1)

\* number of newlines that end right before position i
NewlinesBefore(s, i) ==
    Cardinality({k \in 1..(i - 1) : \A m \in k..(i - 1) : s[m] = "\n"})

\* an occurrence of "\n\n" found by the left-to-right scan starts at i: in a
\* run of newlines the occurrences start at every second position
StartsBreak(s, i) ==
    /\ i < Len(s)
    /\ s[i] = "\n"
    /\ s[i + 1] = "\n"
    /\ NewlinesBefore(s, i) % 2 = 0

\* s.split("\n\n")
SplitParagraphs(s) == Pieces(s, SelectSeq(Indices(s), LAMBDA i : StartsBreak(s, i)), 2)

\* s.replace(". ", ".\n"): every space that follows a period becomes a newline
ReplacePeriodSpace(s) ==
    [i \in 1..Len(s) |-> IF i > 1 /\ s[i] = " " /\ s[i - 1] = "." THEN "\n" ELSE s[i]]

\* line 145
Sentences(paragraph) == SplitChar(ReplacePeriodSpace(paragraph), "\n")

\* line 157
Words(sentence) == SplitChar(sentence, " ")

\* the two locals of the loops
Locals(chunks, current_chunk) == [chunks |-> chunks, current_chunk |-> current_chunk]

\* "if current_chunk: chunks.append(current_chunk); current_chunk = ''"
Flush(st) ==
    IF st.current_chunk # <<>>
    THEN Locals(Append(st.chunks, st.current_chunk), <<>>)
    ELSE st

\* the running chunk replaced by the piece instead of extended with it
JoinOverwriting(st, sep, piece) == Locals(st.chunks, piece)

\* "if current_chunk: current_chunk += sep + piece else: current_chunk = piece"
Join(st, sep, piece) ==
    Locals(st.chunks, IF st.current_chunk # <<>>
                      THEN st.current_chunk \o sep \o piece
                      ELSE piece)

\* the word loop appending to the running chunk whether the word fits or not
WordStepAlwaysJoin(st, word, max) == Join(st, <<" ">>, word)

\* lines 159-169: the body of "for word in words"
WordStep(st, word, max) ==
    IF Len(st.current_chunk) + Len(word) + 1 > max
    THEN Locals(Append(st.chunks, st.current_chunk), word)
    ELSE Join(st, <<" ">>, word)

RECURSIVE WordLoop(_, _, _, _)
WordLoop(st, words, i, max) ==
    IF i > Len(words) THEN st
    ELSE WordLoop(WordStep(st, words[i], max), words, i + 1, max)

\* lines 154-172: the sentence does not fit; st has been flushed
PlaceSentence(st, sentence, max) ==
    IF Len(sentence) > max
    THEN WordLoop(st, Words(sentence), 1, max)
    ELSE Locals(st.chunks, sentence)

\* lines 147-178: the body of "for sentence in sentences"
SentenceStep(st, sentence, max) ==
    IF Len(st.current_chunk) + Len(sentence) + 1 > max
    THEN PlaceSentence(Flush(st), sentence, max)
    ELSE Join(st, <<" ">>, sentence)

RECURSIVE SentenceLoop(_, _, _, _)
SentenceLoop(st, sentences, i, max) ==
    IF i > Len(sentences) THEN st
    ELSE SentenceLoop(SentenceStep(st, sentences[i], max), sentences, i + 1, max)

\* every paragraph taken apart into sentences, over-long or not
PlaceParagraphBySentences(st, paragraph, max) ==
    SentenceLoop(st, Sentences(paragraph), 1, max)

\* lines 142-181: the paragraph does not fit; st has been flushed
PlaceParagraph(st, paragraph, max) ==
    IF Len(paragraph) > max
    THEN SentenceLoop(st, Sentences(paragraph), 1, max)
    ELSE Locals(st.chunks, paragraph)

\* lines 134-187: the body of "for paragraph in paragraphs"
ParagraphStep(st, paragraph, max) ==
    IF Len(st.current_chunk) + Len(paragraph) + 2 > max
    THEN PlaceParagraph(Flush(st), paragraph, max)
    ELSE Join(st, <<"\n", "\n">>, paragraph)

RECURSIVE ParagraphLoop(_, _, _, _)
ParagraphLoop(st, paragraphs, i, max) ==
    IF i > Len(paragraphs) THEN st
    ELSE ParagraphLoop(ParagraphStep(st, paragraphs[i], max), paragraphs, i + 1, max)

\* lines 127-196: the loops and the last flush
SplitInChunks(t, max) ==
    Flush(ParagraphLoop(Locals(<<>>, <<>>), SplitParagraphs(t), 1, max)).chunks

\* split_long_message without its early return
SplitLongMessageAlwaysSplits(t, max) == SplitInChunks(t, max)

\* split_long_message(text, max_length)
SplitLongMessage(t, max) ==
    IF Len(t) <= max THEN <<t>> ELSE SplitInChunks(t, max)

\* the caller holds a text and a limit
InitSplit ==
    /\ DYNAMIC_MESSAGE_LENGTH_ENABLED = TRUE
    /\ BASE_PROBABILITY = DefaultProbabilities
    /\ RESPONSE_LENGTH_RANDOMNESS = DefaultRandomness
    /\ NewManager
    /\ stage = NoStage
    /\ NoHandlers
    /\ text \in Texts \cup LongTexts
    /\ max_length \in MaxLengths
    /\ response_chunks = NotReturned

\* response_chunks = split_long_message(text, max_length)
CallSplitLongMessage ==
    /\ ~response_chunks.returned
    /\ response_chunks' = [returned |-> TRUE, chunks |-> SplitLongMessage(text, max_length)]
    /\ UNCHANGED <<configVars, managerVars, stage, handlerVars, text, max_length>>

NextSplit == CallSplitLongMessage

SpecSplit == InitSplit /\ [][NextSplit]_vars

\* ------------------------------------------------------------------------
\* Claims about the selector
\* ------------------------------------------------------------------------
\* C1: with the mechanism enabled every call of get_response_type (directly
\* or through format_response_length_for_prompt) completes and returns one of
\* the five classes, for every configuration of non-negative base weights.
C1_AlwaysReturnsAClass ==
    (DYNAMIC_MESSAGE_LENGTH_ENABLED /\ call.op # "none") => call.result \in ClassSet

\* C2: when the mechanism is disabled every call returns "medium"
\* (get_response_type) or "" (format_response_length_for_prompt), leaves
\* last_response_type and consecutive_same_type_count as they were and takes
\* nothing from the random source.
C2_DisabledIsInert ==
    [][~DYNAMIC_MESSAGE_LENGTH_ENABLED =>
          /\ last_response_type' = last_response_type
          /\ consecutive_same_type_count' = consecutive_same_type_count
          /\ call'.draws = 0
          /\ call'.op = "get_response_type" => call'.result = "medium"
          /\ call'.op = "format_response_length_for_prompt" => call'.result = ""]_vars

C2_DisabledCallMade ==
    /\ ~DYNAMIC_MESSAGE_LENGTH_ENABLED
    /\ call.op = "get_response_type"
    /\ call.result = "medium"
    /\ last_response_type = None

\* C3: a selection (an enabled call that returns a class) that returns the
\* previous class adds 1 to the counter and keeps the previous class; any
\* other selection sets the counter to 0 and the previous class to the one
\* returned. Hence the previous class is always the class returned last.
C3_TrackingRule ==
    /\ [][(DYNAMIC_MESSAGE_LENGTH_ENABLED /\ call'.result \in ClassSet) =>
            IF call'.result = last_response_type
            THEN /\ consecutive_same_type_count' = consecutive_same_type_count + 1
                 /\ last_response_type' = last_response_type
            ELSE /\ consecutive_same_type_count' = 0
                 /\ last_response_type' = call'.result]_vars
    /\ []((DYNAMIC_MESSAGE_LENGTH_ENABLED /\ call.result \in ClassSet)
            => last_response_type = call.result)

C3_RepeatedThenCounted ==
    /\ DYNAMIC_MESSAGE_LENGTH_ENABLED
    /\ call.result = last_response_type
    /\ consecutive_same_type_count = 2

\* C4 as stated: the counter equals the length of the trailing run of equal
\* selections that ends at the latest turn.
C4_CountIsRunLength ==
    /\ consecutive_same_type_count >= 0
    /\ consecutive_same_type_count = selection_run.length

\* C4 as amended: the counter is one less than the length of the trailing run
\* of equal selections (it counts the repeats of the previous class, not its
\* occurrences), the run being a run of the previous class; it is 0 before
\* the first selection.
C4_CountIsRepeats ==
    /\ consecutive_same_type_count >= 0
    /\ selection_run.class = last_response_type
    /\ IF selection_run.length = 0
       THEN consecutive_same_type_count = 0 /\ last_response_type = None
       ELSE consecutive_same_type_count = selection_run.length - 1

C4_RunOfThree ==
    /\ selection_run.length = 3
    /\ consecutive_same_type_count = 2
    /\ call.result = last_response_type

\* C5 as stated: the damping factor applied to the previous class is never
\* below 0.3 and does not grow with the repeat count.
C5_FactorNeverBelowFloor ==
    (stage.name = "variety" /\ stage.factor # None) =>
        /\ RLeq(<<3, 10>>, stage.factor)
        /\ consecutive_same_type_count >= 2 =>
              RLeq(stage.factor, ReductionFactor(consecutive_same_type_count - 1))

\* C5 as amended: the damping factor min(0.3, 0.8^n) is positive, never above
\* 0.3 (0.3 caps it from above; it is 0.3 up to n = 5 and 0.8^n from n = 6
\* on) and does not grow with the repeat count n.
C5_FactorCappedAndNonIncreasing ==
    (stage.name = "variety" /\ stage.factor # None) =>
        /\ RLt(<<0, 1>>, stage.factor)
        /\ RLeq(stage.factor, <<3, 10>>)
        /\ consecutive_same_type_count <= 5 => stage.factor = <<3, 10>>
        /\ consecutive_same_type_count >= 6 =>
              stage.factor = RPow(<<4, 5>>, consecutive_same_type_count)
        /\ consecutive_same_type_count >= 2 =>
              RLeq(stage.factor, ReductionFactor(consecutive_same_type_count - 1))
        /\ stage.after[last_response_type] =
              RMul(stage.before[last_response_type], stage.factor)

C5_DampedBelowCap ==
    /\ stage.name = "variety"
    /\ consecutive_same_type_count = 6
    /\ stage.factor = <<4096, 15625>>
    /\ RLt(stage.after[last_response_type],
           RMul(stage.before[last_response_type], <<3, 10>>))

\* ------------------------------------------------------------------------
\* Claims about the selector inside the handlers
\* ------------------------------------------------------------------------
\* C6: the tracking fields a selection reads for a chat are those that the
\* chat's own earlier selections alone produce; selections for another chat
\* never change them.
C6_ConversationsIndependent ==
    \A h \in Handlers :
        tasks[h].pc = "update" => tasks[h].snapshot = own_state[tasks[h].chat]

\* C7: a selection is atomic with respect to the other handlers: from the
\* point where it has read the tracking fields to the point where it writes
\* them the handler holds the event loop, no other handler is inside a
\* selection, and the fields still have the values that were read.
C7_SelectionAtomic ==
    \A h \in Handlers :
        tasks[h].pc = "update" =>
            /\ running = h
            /\ tasks[h].snapshot = Tracking
            /\ \A g \in Handlers \ {h} : tasks[g].pc \notin {"variety", "update"}

C7_SelectingWhileOtherInFlight ==
    \E h \in Handlers, g \in Handlers :
        /\ g # h
        /\ tasks[h].pc = "update"
        /\ tasks[g].pc = "generate"
        /\ tasks[h].chat = tasks[g].chat
        /\ last_response_type \in ClassSet

\* ------------------------------------------------------------------------
\* Claims about split_long_message
\* ------------------------------------------------------------------------
\* a chunk is one word: it has no space and no newline
OneWord(chunk) == \A i \in 1..Len(chunk) : chunk[i] \notin {" ", "\n"}

\* C8: a text no longer than max_length (the empty text too) is returned as
\* the one-element list holding the text itself.
C8_ShortTextReturnedWhole ==
    (response_chunks.returned /\ Len(text) <= max_length) =>
        response_chunks.chunks = <<text>>

C8_ShortTextWithBreaks ==
    /\ response_chunks.returned
    /\ Len(text) = max_length
    /\ text = <<"a", "\n", "\n", " ">>
    /\ response_chunks.chunks = <<text>>

\* C9: for a positive max_length every chunk returned is at most max_length
\* long or is one single word longer than max_length.
C9_ChunkFitsOrIsOneWord ==
    (response_chunks.returned /\ max_length > 0) =>
        \A k \in 1..Len(response_chunks.chunks) :
            \/ Len(response_chunks.chunks[k]) <= max_length
            \/ OneWord(response_chunks.chunks[k])

C9_OversizedWordAmongChunks ==
    /\ response_chunks.returned
    /\ max_length = 3
    /\ Len(response_chunks.chunks) = 2
    /\ Len(response_chunks.chunks[1]) = 1
    /\ Len(response_chunks.chunks[2]) = 4
    /\ OneWord(response_chunks.chunks[2])

\* C10: for a non-empty text and a positive max_length every chunk returned
\* is a non-empty string.
C10_NoEmptyChunk ==
    (response_chunks.returned /\ text # <<>> /\ max_length > 0) =>
        \A k \in 1..Len(response_chunks.chunks) : response_chunks.chunks[k] # <<>>

\* concatenation of the chunks, in order
RECURSIVE Concatenation(_, _)
Concatenation(chunks, k) ==
    IF k > Len(chunks) THEN <<>> ELSE chunks[k] \o Concatenation(chunks, k + 1)

\* s with every space and newline deleted
Content(s) == SelectSeq(s, LAMBDA ch : ch \notin {" ", "\n"})

\* C11: for a positive max_length the chunks, concatenated in order and with
\* every space and newline deleted, are the text with every space and
\* newline deleted: nothing is lost, duplicated or reordered.
C11_ContentPreserved ==
    (response_chunks.returned /\ max_length > 0) =>
        Content(Concatenation(response_chunks.chunks, 1)) = Content(text)

C11_ContentAcrossThreeLevels ==
    /\ response_chunks.returned
    /\ max_length = 2
    /\ text = <<"a", "\n", "\n", ".", " ", "a">>
    /\ response_chunks.chunks = << <<"a">>, <<".">>, <<"a">> >>

\* "\n\n".join(chunks), from chunk k on
RECURSIVE JoinedFrom(_, _)
JoinedFrom(chunks, k) ==
    IF k > Len(chunks) THEN <<>>
    ELSE IF k = Len(chunks) THEN chunks[k]
    ELSE chunks[k] \o <<"\n", "\n">> \o JoinedFrom(chunks, k + 1)

\* every piece between "\n\n" separators fits in max
ParagraphsFit(t, max) ==
    \A k \in 1..Len(SplitParagraphs(t)) : Len(SplitParagraphs(t)[k]) <= max

\* C12: when a text is longer than max_length and each of its pieces between
\* "\n\n" separators fits (empty pieces included), the chunks joined with
\* "\n\n" are the text, character for character.
C12_ParagraphSplitExact ==
    (response_chunks.returned /\ max_length > 0 /\ Len(text) > max_length
        /\ ParagraphsFit(text, max_length)) =>
        JoinedFrom(response_chunks.chunks, 1) = text

\* C13: a text longer than max_length with no space and no newline in it
\* (5000 letters with max_length 4000, say) comes back as the single chunk
\* that is the whole text.
C13_UnbreakableTextIsOneChunk ==
    (response_chunks.returned /\ max_length > 0 /\ Len(text) > max_length
        /\ OneWord(text)) =>
        response_chunks.chunks = <<text>>

IsSubstring(c, t) ==
    \E i \in 0..(Len(t) - Len(c)) : SubSeq(t, i + 1, i + Len(c)) = c

\* C15: for a positive max_length every chunk returned is a contiguous
\* substring of the text.
C15_ChunksAreSubstrings ==
    (response_chunks.returned /\ max_length > 0) =>
        \A k \in 1..Len(response_chunks.chunks) :
            IsSubstring(response_chunks.chunks[k], text)

\* C18: a call with a max_length of 0 or less returns no chunks: it is
\* rejected.
C18_NonPositiveRejected ==
    max_length <= 0 => ~response_chunks.returned

\* C16: at every stage of a selection every weight is non-negative, and the
\* weights handed to the normalization are positive (a weight driven to zero
\* or below has been raised to a positive floor).
C16_WeightsStayNonNegative ==
    stage.name \in WeightStages =>
        \A k \in ClassSet :
            /\ RSign(stage.weights[k]) >= 0
            /\ stage.name = "randomness" => RSign(stage.weights[k]) > 0

\* C19: when the previous class is extremely_short and it has been repeated
\* 3 times, the weights right after the damping are the weights the variety
\* stage was handed with the one of extremely_short multiplied by 0.3, and
\* neither the push-away draw nor the boost draw has been taken yet.
C19_DampedByThreeTenthsFirst ==
    (stage.name = "damped" /\ last_response_type = "extremely_short"
        /\ consecutive_same_type_count = 3) =>
        /\ stage.weights = [stage.before EXCEPT
                               !.extremely_short = RMul(@, <<3, 10>>)]
        /\ stage.draws = 0

C19_DampedAfterThreeRepeats ==
    /\ stage.name = "damped"
    /\ last_response_type = "extremely_short"
    /\ consecutive_same_type_count = 3
    /\ RSign(stage.before.extremely_short) > 0

\* C20: no step changes the configured values; a selection starts from the
\* configured base weights whatever the selections before it computed; and
\* the weights it hands to the normalization are those computed from the
\* configuration, its arguments, its random draws, last_response_type and
\* consecutive_same_type_count alone.
C20_EverySelectionStartsFromBase ==
    [][/\ UNCHANGED configVars
       /\ stage'.name = "base" => stage'.weights = BASE_PROBABILITY
       /\ stage'.name = "randomness" =>
             stage'.weights =
                 ApplyRandomness(
                     AdjustProbabilitiesForVariety(
                         AdjustForTurn(BASE_PROBABILITY, stage'.m, stage'.c),
                         last_response_type, consecutive_same_type_count, stage'.d),
                     RESPONSE_LENGTH_RANDOMNESS, stage'.u)]_vars

C20_SecondSelectionBegins ==
    /\ stage.name = "base"
    /\ call.op = "get_response_type"
    /\ last_response_type \in ClassSet
    /\ consecutive_same_type_count > 0

\* the sends of chunks k..n of a response, in list order: the first as a
\* reply to the user's message, the others as separate messages
RECURSIVE ChunksInOrder(_, _)
ChunksInOrder(k, n) ==
    IF k > n THEN <<>>
    ELSE <<Event(IF k = 1 THEN "reply_text" ELSE "send_message", k)>>
         \o ChunksInOrder(k + 1, n)

\* the events of a turn whose response has n chunks
TurnEvents(n) ==
    (IF DYNAMIC_MESSAGE_LENGTH_ENABLED THEN <<Event("select", 0)>> ELSE <<>>)
    \o <<Event("generate", 0), Event("split", 0)>> \o ChunksInOrder(1, n)

IsPrefix(s, t) == Len(s) <= Len(t) /\ SubSeq(t, 1, Len(s)) = s

\* the events without the error message that ends a failed turn
BeforeError(events) ==
    IF events # <<>> /\ events[Len(events)].kind = "error_message"
    THEN SubSeq(events, 1, Len(events) - 1)
    ELSE events

\* C17: what a handler has done so far in its turn is always an initial part
\* of: the selection (when the mechanism is enabled), the call of the
\* generator, the split of the response, the chunks in list order, the first
\* with reply_text and the others with send_message; a failed turn ends with
\* the error message after such an initial part.
C17_EventsInOrder ==
    \A h \in DOMAIN tasks :
        IsPrefix(BeforeError(tasks[h].events), TurnEvents(tasks[h].chunks))

C17_AllChunksSent ==
    \E h \in DOMAIN tasks :
        /\ DYNAMIC_MESSAGE_LENGTH_ENABLED
        /\ tasks[h].chunks = 3
        /\ tasks[h].events = TurnEvents(3)

\* C21: when there is no previous class or the previous class has not been
\* repeated, the variety stage leaves the five weights as it was handed them
\* and takes no random draw.
C21_VarietyIsNoOpWithoutRepeat ==
    (stage.name = "variety"
        /\ (last_response_type = None \/ consecutive_same_type_count = 0)) =>
        /\ stage.weights = stage.before
        /\ stage.draws = 0

C21_VarietyPassedAfterChange ==
    /\ stage.name = "variety"
    /\ last_response_type \in ClassSet
    /\ consecutive_same_type_count = 0
    /\ \E k \in ClassSet : RSign(stage.before[k]) > 0

\* the factor the push-away table gives class k after the previous class last
TableFactor(last, k) ==
    IF last \in {"extremely_short", "slightly_short"}
    THEN (IF k \in {"slightly_long", "long"} THEN <<3, 1>>
          ELSE IF k = "medium" THEN <<2, 1>> ELSE <<1, 1>>)
    ELSE IF last = "medium"
    THEN (IF k \in {"extremely_short", "long"} THEN <<5, 2>> ELSE <<1, 1>>)
    ELSE (IF k \in {"extremely_short", "slightly_short"} THEN <<3, 1>> ELSE <<1, 1>>)

TimesTable(p, last) ==
    Weights(RMul(p.extremely_short, TableFactor(last, "extremely_short")),
            RMul(p.slightly_short, TableFactor(last, "slightly_short")),
            RMul(p.medium, TableFactor(last, "medium")),
            RMul(p.slightly_long, TableFactor(last, "slightly_long")),
            RMul(p.long, TableFactor(last, "long")))

\* C22: a push-away that fires multiplies the weights by the factors of the
\* table and nothing else, one that does not fire changes nothing; at the end
\* of a variety stage that applied, the weight of the previous class is what
\* the stage was handed times the reduction factor, and no other weight is
\* below what the stage was handed.
C22_PushAwayFollowsTable ==
    [][/\ (stage.name = "damped" /\ stage'.name = "pushed") =>
             stage'.weights = IF RLt(stage'.d.push, <<4, 5>>)
                              THEN TimesTable(stage.weights, last_response_type)
                              ELSE stage.weights
       /\ (stage.name = "pushed" /\ stage'.name = "variety") =>
             /\ stage'.weights[last_response_type] =
                    RMul(stage'.before[last_response_type],
                         ReductionFactor(consecutive_same_type_count))
             /\ \A k \in ClassSet \ {last_response_type} :
                    RLeq(stage'.before[k], stage'.weights[k])]_vars

C22_PushedAwayFromMedium ==
    /\ stage.name = "pushed"
    /\ last_response_type = "medium"
    /\ RLt(stage.d.push, <<4, 5>>)
    /\ RSign(stage.before.long) > 0

\* C23: a random boost that fires multiplies by 4 the weight of one class
\* other than the previous class and changes no other weight; one that does
\* not fire changes nothing; whether it fires does not depend on whether the
\* push-away fired.
C23_BoostOneOtherClass ==
    [][(stage.name = "pushed" /\ stage'.name = "variety") =>
          IF RLt(stage'.d.boost, <<1, 5>>)
          THEN \E k \in ClassSet \ {last_response_type} :
                  stage'.weights = [stage.weights EXCEPT ![k] = RMul(@, <<4, 1>>)]
          ELSE stage'.weights = stage.weights]_vars

C23_BoostedAfterPushAway ==
    /\ stage.name = "variety"
    /\ last_response_type = "long"
    /\ consecutive_same_type_count > 0
    /\ RLt(stage.d.push, <<4, 5>>)
    /\ RLt(stage.d.boost, <<1, 5>>)
    /\ stage.d.choice = 4
    /\ RSign(stage.before.slightly_long) > 0

\* cumulative probability of the i-th class in the order of the dict
RECURSIVE Cumulative(_, _)
Cumulative(np, i) ==
    IF i = 0 THEN <<0, 1>> ELSE RAdd(Cumulative(np, i - 1), np[Classes[i]])

\* positions whose cumulative probability is at least v
Reaching(np, v) == {i \in 1..5 : RLeq(v, Cumulative(np, i))}

\* C24: the class returned is the first one, in the order extremely_short,
\* slightly_short, medium, slightly_long, long, whose cumulative probability
\* is at least the value drawn; it is medium when no cumulative probability
\* reaches the value drawn.
C24_FirstClassReachingDraw ==
    stage.name = "sampled" =>
        /\ Classes = <<"extremely_short", "slightly_short", "medium",
                       "slightly_long", "long">>
        /\ IF Reaching(stage.np, stage.v) = {}
           THEN stage.result = "medium"
           ELSE \E i \in Reaching(stage.np, stage.v) :
                   /\ stage.result = Classes[i]
                   /\ \A j \in Reaching(stage.np, stage.v) : i <= j

C24_FallbackTaken ==
    /\ stage.name = "sampled"
    /\ Reaching(stage.np, stage.v) = {}
    /\ stage.result = "medium"

\* C27: the class returned never has the normalized probability 0.
C27_ZeroProbabilityNeverReturned ==
    stage.name = "sampled" => stage.np[stage.result] # <<0, 1>>

\* the five base weights are positive and the randomness factor is in [0, 1)
PositiveConfiguration ==
    /\ \A k \in ClassSet : RSign(BASE_PROBABILITY[k]) > 0
    /\ RLeq(<<0, 1>>, RESPONSE_LENGTH_RANDOMNESS)
    /\ RLt(RESPONSE_LENGTH_RANDOMNESS, <<1, 1>>)

\* C26: with positive base weights and a randomness factor in [0, 1), the
\* weights handed to the normalization are all positive, so is their sum, the
\* normalized weights sum to 1, and no selection raises.
C26_PositiveAtNormalization ==
    PositiveConfiguration =>
        /\ stage.name = "randomness" =>
              /\ \A k \in ClassSet : RSign(stage.weights[k]) > 0
              /\ RSign(Total(stage.weights)) > 0
              /\ Total(DivideAll(stage.weights, Total(stage.weights))) = <<1, 1>>
        /\ stage.name # "raised"
        /\ call.result # ZeroDivisionError

C26_LowestAdjustmentAfterRepeats ==
    /\ PositiveConfiguration
    /\ stage.name = "randomness"
    /\ consecutive_same_type_count = 3
    /\ \A k \in ClassSet : stage.u[k] = <<0, 1>>

IsSeparator(ch) == ch \in {" ", "\n"}

\* the words of s in order: its maximal runs without space or newline
WordsOf(s) ==
    LET starts == SelectSeq(Indices(s), LAMBDA i :
                      ~IsSeparator(s[i]) /\ (i = 1 \/ IsSeparator(s[i - 1])))
        ends == SelectSeq(Indices(s), LAMBDA i :
                      ~IsSeparator(s[i]) /\ (i = Len(s) \/ IsSeparator(s[i + 1])))
    IN  [k \in 1..Len(starts) |-> SubSeq(s, starts[k], ends[k])]

RECURSIVE WordsOfAll(_, _)
WordsOfAll(chunks, k) ==
    IF k > Len(chunks) THEN <<>>
    ELSE WordsOf(chunks[k]) \o WordsOfAll(chunks, k + 1)

\* a unit with no character has nothing that could be parted
InSomeChunk(unit, chunks) ==
    unit = <<>> \/ \E k \in 1..Len(chunks) : IsSubstring(unit, chunks[k])

\* C25: every paragraph no longer than max_length is inside one chunk; every
\* sentence no longer than max_length of a paragraph longer than max_length
\* is inside one chunk; and the words of the chunks, chunk after chunk, are
\* the words of the text: no word is divided.
C25_UnitsKeptWhole ==
    (response_chunks.returned /\ max_length > 0) =>
        /\ \A i \in 1..Len(SplitParagraphs(text)) :
              \E paragraph \in {SplitParagraphs(text)[i]} :
                 IF Len(paragraph) <= max_length
                 THEN InSomeChunk(paragraph, response_chunks.chunks)
                 ELSE \A j \in 1..Len(Sentences(paragraph)) :
                         Len(Sentences(paragraph)[j]) <= max_length =>
                            InSomeChunk(Sentences(paragraph)[j], response_chunks.chunks)
        /\ WordsOfAll(response_chunks.chunks, 1) = WordsOf(text)

C25_ParagraphKeptSentencesParted ==
    /\ response_chunks.returned
    /\ max_length = 2
    /\ text = <<"a", "\n", "a", "\n", "\n", "a">>
    /\ response_chunks.chunks = << <<"a">>, <<"a">>, <<"a">> >>

\* the handler has logged the event e
Logged(e) == \E i \in 1..Len(tasks.handle_message.events) : tasks.handle_message.events[i] = e

\* C28: once the typing task exists, a handler that has returned has set the
\* cancel event and its typing task has ended; and a typing task that is
\* alive ends eventually.
C28_TypingCancelledBeforeReturn ==
    /\ [](TurnAt("returned") =>
             /\ tasks.handle_message.cancel_typing
             /\ tasks.keep_typing.pc \in {"done", "failed"})
    /\ (tasks.keep_typing.pc \in TypingAlive) ~> (tasks.keep_typing.pc \in {"done", "failed"})

C28_ReturnedAfterException ==
    /\ TurnAt("returned")
    /\ tasks.handle_message.kind = "media"
    /\ tasks.keep_typing.pc = "done"
    /\ Logged(Event("error_stored", 0))
    /\ ~Logged(Event("generated", 0))

\* C29: when the generator has returned a reply and the typing task has
\* failed, the error message is not sent unless the transmission of a chunk
\* failed.
C29_TypingFailureDoesNotPreventDelivery ==
    (Logged(Event("generated", 0)) /\ tasks.keep_typing.pc = "failed"
        /\ \A k \in ChunkCounts : ~Logged(Event("failed", k))) =>
        /\ ~TurnAt("error_reply")
        /\ ~Logged(Event("error_sent", 0))

\* number of times the handler has logged the event e
Times(e) ==
    Cardinality({i \in 1..Len(tasks.handle_message.events) : tasks.handle_message.events[i] = e})

====
